---- MODULE Spec2Model ----
(***************************************************************************)
(* Model of the K2 extractor component (keboola/component-k2):             *)
(*   - K2DataParser, the flattening engine (src/src/k2parser.py)           *)
(*   - the child-relationship resolver of Component (src/src/component.py) *)
(*   - the table handlers, the run state and Component.run                 *)
(*   - Component._update_conditions_with_incremental_options               *)
(* Python values are modelled as tagged records: None is [py |-> "None"],  *)
(* a scalar is [py |-> "scalar", v |-> n], a str is [py |-> "str", ...],   *)
(* a dict is [py |-> "dict", ...].                                         *)
(***************************************************************************)
EXTENDS Integers, Sequences, FiniteSets, TLC

VARIABLES
    \* ---- K2DataParser.parse_data (src/src/k2parser.py)
    json_data,          \* the page handed to parse_data: a list of records
    child_objects,      \* K2DataParser.child_objects
    main_table_name,    \* parse_data's main_table_name
    final_data,         \* parse_data's accumulator: table name -> list of rows
    row_i,              \* position of parse_data's loop over json_data (1-based)
    p_pc,               \* "off" | "loop" | "returned" | "raised"
    \* ---- Component._find_child_objects (src/src/component.py)
    r_store,            \* the classes the K2 API has metadata for: class name -> metadata
    r_class,            \* k2_object_class_name
    r_fields,           \* k2_object_fields
    r_metadata,         \* object_metadata (line 320)
    r_i,                \* position of the loop over k2_object_fields (1-based)
    r_last,             \* child_objects: what the last _find_child_object call returned
    r_all,              \* all_child_objects
    r_pc,               \* "off" | "start" | "loop" | "returned" | "raised"
    \* ---- Component._update_conditions_with_incremental_options (src/src/component.py)
    c_date_from,        \* self.date_from
    c_date_to,          \* self.date_to
    c_conditions,       \* the argument conditions
    c_field,            \* the argument incremental_field
    c_result,           \* the value returned
    c_pc,               \* "off" | "call" | "done"
    \* ---- Component.run and its surroundings (src/src/component.py)
    config,                     \* configuration.parameters
    state_file,                 \* the state file: what get_state_file reads, write_state_file writes
    k2_meta,                    \* the metadata the K2 API serves: class name -> metadata
    k2_pages,                   \* the responses the K2 API gives to the successive data requests
    self_state,                 \* self.state
    self_date_from,             \* self.date_from
    self_date_to,               \* self.date_to
    self_new_state,             \* self.new_state
    self_table_handlers,        \* self.table_handlers, in insertion order
    manifests,                  \* the manifests written by this run: table name -> columns
    prev_manifests,             \* the manifests the previous run wrote
    run_object_metadata,        \* run's object_metadata (line 96)
    child_object_foreign_keys,  \* child_object_foreign_keys (line 175)
    run_conditions,             \* conditions (line 177)
    requests,                   \* the data requests get_object_data has issued
    last_page,                  \* get_object_data's last_page
    page_data,                  \* the page get_object_data yielded last
    run_parsed_data,            \* parsed_data (line 182) of the page processed last
    run_log,                    \* what the run has done to the outside, in order
    run_no,                     \* which run of the component this is
    run_error,                  \* the exception run() ended with, "" while there is none
    run_pc,                     \* where run() stands
    \* ---- K2Client.get_object_data (src/src/client/client.py)
    g_server,           \* the K2 API: for each URL the response it gives (URL 1: requests_url)
    g_next_page_url,    \* next_page_url
    g_last_page,        \* last_page
    g_requested,        \* the URLs handed to get_raw, in order
    g_yielded,          \* the pages yielded, in order
    g_pc                \* "off" | "loop" | "yield" | "done" | "raised"

parserVars == <<json_data, child_objects, main_table_name, final_data, row_i, p_pc>>
resolverVars == <<r_store, r_class, r_fields, r_metadata, r_i, r_last, r_all, r_pc>>

condVars == <<c_date_from, c_date_to, c_conditions, c_field, c_result, c_pc>>

envVars == <<config, k2_meta, k2_pages>>
runVars == <<envVars, state_file, self_state, self_date_from, self_date_to, self_new_state,
             self_table_handlers, manifests, prev_manifests, run_object_metadata,
             child_object_foreign_keys, run_conditions, requests, last_page, page_data,
             run_parsed_data, run_log, run_no, run_error, run_pc>>

clientVars == <<g_server, g_next_page_url, g_last_page, g_requested, g_yielded, g_pc>>

vars == <<parserVars, resolverVars, condVars, runVars, clientVars>>

NotParser == <<resolverVars, condVars, runVars, clientVars>>
NotResolver == <<parserVars, condVars, runVars, clientVars>>
NotCond == <<parserVars, resolverVars, runVars, clientVars>>
NotRun == <<parserVars, resolverVars, condVars, clientVars>>
NotClient == <<parserVars, resolverVars, condVars, runVars>>

(***************************************************************************)
(* Python values                                                           *)
(***************************************************************************)
PyNone == [py |-> "None"]
PyVal(v) == [py |-> "scalar", v |-> v]
PyStr(s) == [py |-> "str", s |-> s]

\* the empty dict {} and the empty list []
EmptyDict == <<>>
EmptyList == <<>>

\* f"{x}" of an optional name: str(None) is "None"
FormatName(x) == IF x.py = "None" THEN "None" ELSE x.s

(***************************************************************************)
(* Payload constructors: the JSON shapes K2 returns                        *)
(***************************************************************************)
NESTED_TYPE == "DataObjectWrapper:K2.Data"
CHILD_TYPE == "ChildDataObjectWrapper:K2.Data"

\* a field node whose Value is a scalar
Scalar(n, v) == [Name |-> n, Value |-> PyVal(v)]
\* a data object: a top-level record or an item of a child collection
Obj(cls, fvs) == [DOClassName |-> cls, FieldValues |-> fvs]
\* a field node whose Value is an embedded (nested) data object
Nested(n, cls, fvs) ==
    [Name |-> n,
     Value |-> [py |-> "dict", type |-> NESTED_TYPE, DOClassName |-> cls, FieldValues |-> fvs]]
\* a field node whose Value is a child collection
Child(n, items) ==
    [Name |-> n, Value |-> [py |-> "dict", type |-> CHILD_TYPE, Items |-> items]]
\* a field node whose Value is a dict that is no K2 wrapper
PlainDict(n) == [Name |-> n, Value |-> [py |-> "dict", type |-> "Other"]]

(***************************************************************************)
(* K2DataParser                                                            *)
(***************************************************************************)
DEFAULT_PKEYS == <<"RID", "ID", "Id">>

get_data_type(data_object) ==
    IF data_object.Value.py = "dict"
    THEN IF data_object.Value.type = NESTED_TYPE THEN "NESTED"
         ELSE IF data_object.Value.type = CHILD_TYPE THEN "CHILD_TABLE"
         ELSE "BASE"
    ELSE "BASE"

\* first pkey name (in pkey order) carried by some sibling, with the first such sibling's value
RECURSIVE get_primary_key_from(_, _, _)
get_primary_key_from(data, pkey_names, k) ==
    IF k > Len(pkey_names) THEN [name |-> PyNone, value |-> PyNone]
    ELSE LET hits == {j \in 1..Len(data) : data[j].Name = pkey_names[k]}
         IN IF hits # {}
            THEN LET j == CHOOSE j \in hits : \A j2 \in hits : j <= j2
                 IN [name |-> PyStr(data[j].Name), value |-> data[j].Value]
            ELSE get_primary_key_from(data, pkey_names, k + 1)

get_primary_key(data, pkey_names) == get_primary_key_from(data, pkey_names, 1)

\* child_objects is iterated as Python iterates it: a list gives its items, a dict
\* gives its keys; an item that is a str has no .get (AttributeError)
get_parent_pkeys_from_child(children, child_table_name) ==
    LET strs == {j \in 1..Len(children) : "field_name" \notin DOMAIN children[j]}
        hits == {j \in 1..Len(children) :
                    /\ "field_name" \in DOMAIN children[j]
                    /\ children[j].field_name = child_table_name}
        first(S) == CHOOSE j \in S : \A j2 \in S : j <= j2
    IN IF strs # {} /\ (hits = {} \/ first(strs) < first(hits))
       THEN [err |-> "AttributeError", keys |-> PyNone]
       ELSE IF hits # {}
       THEN [err |-> "", keys |-> children[first(hits)].parent_primary_keys]
       ELSE [err |-> "", keys |-> DEFAULT_PKEYS]

init_table(table_data, key) ==
    IF key \in DOMAIN table_data THEN table_data ELSE (key :> EmptyList) @@ table_data

\* lines 45-48: the prefix handed down into a nested object
nested_parent_name_flat(parent_name, sub_data) == sub_data.Name

nested_parent_name(parent_name, sub_data) ==
    IF parent_name # "" THEN parent_name \o "_" \o sub_data.Name ELSE sub_data.Name

\* the parser's working state: table_data plus whether an exception is propagating
Ok(table_data) == [err |-> "", table_data |-> table_data]
Raise(e, table_data) == [err |-> e, table_data |-> table_data]

parse_object(table_data, table_name, data, table_index, parent_name) ==
    LET rows0 == table_data[table_name]
        rows1 == IF Len(rows0) < table_index + 1 THEN Append(rows0, EmptyDict) ELSE rows0
        name == IF parent_name # "" THEN parent_name \o "_" \o data.Name ELSE data.Name
    IN IF Len(rows1) < table_index + 1
       THEN Raise("IndexError", (table_name :> rows1) @@ table_data)
       ELSE Ok((table_name :> [rows1 EXCEPT ![table_index + 1] = (name :> data.Value) @@ @])
               @@ table_data)

\* line 55: table_data[table_name][index][p_key_name] = p_key_val
stamp_foreign_key(table_data, table_name, index, p_key_name, p_key_val) ==
    LET rows == table_data[table_name]
    IN IF Len(rows) < index + 1
       THEN Raise("IndexError", table_data)
       ELSE Ok((table_name :> [rows EXCEPT ![index + 1] = (p_key_name :> p_key_val) @@ @])
               @@ table_data)

RECURSIVE parse_field(_, _, _, _, _, _, _)
RECURSIVE parse_child_table(_, _, _, _, _, _, _)

\* the loop of parse_field from field i on; st is the state reached so far
parse_field(children, customer_data, table_name, table_index, parent_name, i, st) ==
    IF st.err # "" \/ i > Len(customer_data.FieldValues) THEN st
    ELSE
      LET sub_data == customer_data.FieldValues[i]
          type_of_data == get_data_type(sub_data)
          st1 ==
            IF type_of_data = "BASE"
            THEN parse_object(st.table_data, table_name, sub_data, table_index, parent_name)
            ELSE IF type_of_data = "CHILD_TABLE"
            THEN LET child_table_name == sub_data.Name
                     parent_pkeys == get_parent_pkeys_from_child(children, child_table_name)
                     data_to_send == sub_data.Value.Items
                     pk == get_primary_key(customer_data.FieldValues, parent_pkeys.keys)
                     p_key_name == customer_data.DOClassName \o "_" \o FormatName(pk.name)
                 IN IF parent_pkeys.err # "" THEN Raise(parent_pkeys.err, st.table_data)
                    ELSE parse_child_table(children, data_to_send, child_table_name,
                                           p_key_name, pk.value, 0,
                                           Ok(init_table(st.table_data, child_table_name)))
            ELSE parse_field(children, sub_data.Value, table_name, table_index,
                             nested_parent_name(parent_name, sub_data), 1, st)
      IN parse_field(children, customer_data, table_name, table_index, parent_name, i + 1, st1)

\* the loop of parse_child_table from item index (0-based) on
parse_child_table(children, data, table_name, p_key_name, p_key_val, index, st) ==
    IF st.err # "" \/ index >= Len(data) THEN st
    ELSE
      LET st1 == parse_field(children, data[index + 1], table_name, index, "", 1, st)
          st2 == IF st1.err # "" THEN st1
                 ELSE stamp_foreign_key(st1.table_data, table_name, index, p_key_name, p_key_val)
      IN parse_child_table(children, data, table_name, p_key_name, p_key_val, index + 1, st2)

\* a variant that leaves out the first field of the record
_parse_row_to_tables_from_second(children, data_object, main_table) ==
    parse_field(children, data_object, main_table, 0, "", 2,
                Ok((main_table :> EmptyList)))

\* lines 25-26 and 65-66
_parse_row_to_tables(children, data_object, main_table) ==
    parse_field(children, data_object, main_table, 0, "", 1,
                Ok((main_table :> EmptyList)))

\* lines 19-22: merge one record's tables into final_data
merge_parsed_row_overwrite(final, parsed_row) == parsed_row @@ final

merge_parsed_row(final, parsed_row) ==
    [key \in DOMAIN final \cup DOMAIN parsed_row |->
        (IF key \in DOMAIN final THEN final[key] ELSE EmptyList)
        \o (IF key \in DOMAIN parsed_row THEN parsed_row[key] ELSE EmptyList)]

\* parse_data as a whole (the state machine below runs it one record per step)
RECURSIVE parse_data_from(_, _, _, _, _)
parse_data_from(children, data, main_table, i, final) ==
    IF i > Len(data) THEN Ok(final)
    ELSE LET parsed_row == _parse_row_to_tables(children, data[i], main_table)
         IN IF parsed_row.err # "" THEN Raise(parsed_row.err, final)
            ELSE parse_data_from(children, data, main_table, i + 1,
                                 merge_parsed_row(final, parsed_row.table_data))

parse_data(children, data, main_table) ==
    parse_data_from(children, data, main_table, 1, EmptyDict)

(***************************************************************************)
(* Inputs of the parser: pages of records of class Invoice                 *)
(***************************************************************************)
MaxItems == 2      \* longest child collection
MaxPage == 2       \* most records in a page

\* all sequences over S of length at most n
SeqUpTo(S, n) == UNION {[1..m -> S] : m \in 0..n}

\* items of the child collection Lines (class InvoiceLine)
LineItems ==
    { Obj("InvoiceLine", <<>>),
      Obj("InvoiceLine", <<Scalar("N", 1)>>),
      Obj("InvoiceLine", <<Scalar("Id", 2),
                           Nested("Address", "Address", <<Scalar("City", 2)>>),
                           Child("Sub", <<Obj("Tax", <<Scalar("T", 1)>>)>>)>>) }

\* the primary-key fields a record carries
PkParts(v) ==
    { <<>>,
      <<Scalar("Id", v)>>,
      <<Scalar("K", v)>>,
      <<Scalar("Id", v), Scalar("K", v + 1)>> }

\* the nested (embedded, non-child) objects a record carries
NestedParts ==
    { <<>>,
      <<Nested("Address", "Address", <<Scalar("City", 1)>>)>>,
      <<Nested("Address", "Address",
               <<Nested("Geo", "Geo", <<Scalar("Lat", 1)>>), Scalar("City", 1)>>)>>,
      <<Nested("Address", "Address",
               <<Nested("Geo", "Geo", <<Scalar("Lat", 1)>>), Scalar("Id", 3),
                 Child("Lines", <<Obj("InvoiceLine", <<Scalar("N", 2)>>)>>)>>)>> }

\* the child collections a record carries: Lines, or Extra
ChildParts ==
    {<<>>}
    \cup {<<Child("Lines", items)>> : items \in SeqUpTo(LineItems, MaxItems)}
    \cup {<<Child("Extra", items)>> : items \in SeqUpTo(LineItems, 1)}

Records(v) ==
    {Obj("Invoice", pk \o ne \o ch) : pk \in PkParts(v), ne \in NestedParts, ch \in ChildParts}

\* the records that may follow the first record of a page
FollowRecords ==
    { Obj("Invoice", <<Scalar("Id", 6), Child("Lines", <<Obj("InvoiceLine", <<Scalar("N", 3)>>)>>)>>) }

Pages ==
    UNION {{<<r>> \o rest : rest \in SeqUpTo({r} \cup FollowRecords, MaxPage - 1)}
           : r \in Records(1)}

\* the relation lists handed to K2DataParser
Relation(f, pks) == [field_name |-> f, parent_primary_keys |-> pks]
ChildObjectLists ==
    { <<>>,
      <<Relation("Lines", <<"Id">>)>>,
      <<Relation("Lines", <<"Id", "K">>)>>,
      <<Relation("Lines", <<"K">>), Relation("Sub", <<"Id">>)>> }

(***************************************************************************)
(* K2DataParser.parse_data as a state machine: one record per step         *)
(***************************************************************************)
ParserOff ==
    /\ json_data = <<>> /\ child_objects = <<>> /\ main_table_name = ""
    /\ final_data = EmptyDict /\ row_i = 0 /\ p_pc = "off"

ParserStart ==
    /\ json_data \in Pages
    /\ child_objects \in ChildObjectLists
    /\ main_table_name = "Invoice"
    /\ final_data = EmptyDict
    /\ row_i = 1
    /\ p_pc = "loop"

\* one iteration of the loop of parse_data (lines 17-22)
ParseRow ==
    /\ p_pc = "loop"
    /\ row_i <= Len(json_data)
    /\ LET parsed_row == _parse_row_to_tables(child_objects, json_data[row_i], main_table_name)
       IN IF parsed_row.err # ""
          THEN /\ p_pc' = "raised"
               /\ UNCHANGED <<final_data, row_i>>
          ELSE /\ final_data' = merge_parsed_row(final_data, parsed_row.table_data)
               /\ row_i' = row_i + 1
               /\ p_pc' = "loop"
    /\ UNCHANGED <<json_data, child_objects, main_table_name>>
    /\ UNCHANGED NotParser

\* line 23: return final_data
ParseReturn ==
    /\ p_pc = "loop"
    /\ row_i > Len(json_data)
    /\ p_pc' = "returned"
    /\ UNCHANGED <<json_data, child_objects, main_table_name, final_data, row_i>>
    /\ UNCHANGED NotParser

(***************************************************************************)
(* Reading the payload, for the statements about the parser                *)
(***************************************************************************)
IsChildNode(f) == f.Value.py = "dict" /\ f.Value.type = CHILD_TYPE
IsNestedNode(f) == f.Value.py = "dict" /\ f.Value.type = NESTED_TYPE
IsScalarNode(f) == ~IsChildNode(f) /\ ~IsNestedNode(f)

SeqRange(s) == {s[j] : j \in 1..Len(s)}

\* every child collection of a data object, at any depth, with the object that holds it
RECURSIVE CollectionsIn(_)
CollectionsIn(obj) ==
    UNION { LET f == obj.FieldValues[j]
            IN IF IsChildNode(f)
               THEN {[parent |-> obj, node |-> f]}
                    \cup UNION {CollectionsIn(f.Value.Items[m]) : m \in 1..Len(f.Value.Items)}
               ELSE IF IsNestedNode(f) THEN CollectionsIn(f.Value)
               ELSE {}
          : j \in 1..Len(obj.FieldValues) }

\* the scalars of one row: those of the object and of its nested objects, not of its
\* child collections, each with the names of the nested objects around it
RECURSIVE ScalarsOf(_, _)
ScalarsOf(obj, path) ==
    UNION { LET f == obj.FieldValues[j]
            IN IF IsScalarNode(f) THEN {[path |-> path, name |-> f.Name, value |-> f.Value]}
               ELSE IF IsNestedNode(f) THEN ScalarsOf(f.Value, Append(path, f.Name))
               ELSE {}
          : j \in 1..Len(obj.FieldValues) }

\* the names of a path and a field name, joined with "_"
RECURSIVE JoinUnderscore(_, _)
JoinUnderscore(path, name) ==
    IF path = <<>> THEN name ELSE Head(path) \o "_" \o JoinUnderscore(Tail(path), name)

QualifiedNames(obj) == {JoinUnderscore(s.path, s.name) : s \in ScalarsOf(obj, <<>>)}

PageCollections == UNION {CollectionsIn(json_data[i]) : i \in 1..Len(json_data)}
CollectionsNamed(t) == {c \in PageCollections : c.node.Name = t}

RelationFields == {child_objects[j].field_name : j \in 1..Len(child_objects)}
RelationKeys(t) ==
    (CHOOSE r \in SeqRange(child_objects) : r.field_name = t).parent_primary_keys

SiblingNames(obj) == {obj.FieldValues[j].Name : j \in 1..Len(obj.FieldValues)}

ChildTables == DOMAIN final_data \ {main_table_name}

\* every item of every child collection of the page has a scalar of its own
ItemsHaveScalars ==
    \A c \in PageCollections : \A it \in SeqRange(c.node.Value.Items) : ScalarsOf(it, <<>>) # {}

(***************************************************************************)
(* C2: every child row carries, for every primary key k of its parent      *)
(* class, a column named {parent_class_name}_{k}; stated here for the      *)
(* pages whose parents carry all their primary keys.                       *)
(***************************************************************************)
AllParentKeysPresent ==
    \A c \in PageCollections :
        c.node.Name \in RelationFields =>
            SeqRange(RelationKeys(c.node.Name)) \subseteq SiblingNames(c.parent)

C2_ForeignKeyCompleteness ==
    (p_pc = "returned" /\ AllParentKeysPresent) =>
        \A t \in ChildTables \cap RelationFields :
            \A row \in SeqRange(final_data[t]) :
                \E c \in CollectionsNamed(t) :
                    \A k \in SeqRange(RelationKeys(t)) :
                        (c.parent.DOClassName \o "_" \o k) \in DOMAIN row

(***************************************************************************)
(* C3: when no primary key of the parent is among the parent's own fields, *)
(* flattening completes and every child row has the column                 *)
(* {parent_class_name}_{parent_primary_key_name}, holding None.            *)
(***************************************************************************)
NoParentKeyPresent ==
    \A c \in PageCollections :
        /\ c.node.Name \in RelationFields
        /\ SeqRange(RelationKeys(c.node.Name)) \cap SiblingNames(c.parent) = {}

C3_MissingKeyStillNamed ==
    (NoParentKeyPresent /\ ItemsHaveScalars) =>
        /\ p_pc # "raised"
        /\ p_pc = "returned" =>
             \A t \in ChildTables :
                 \A row \in SeqRange(final_data[t]) :
                     \E c \in CollectionsNamed(t) :
                         \A k \in SeqRange(RelationKeys(t)) :
                             /\ (c.parent.DOClassName \o "_" \o k) \in DOMAIN row
                             /\ row[c.parent.DOClassName \o "_" \o k] = PyNone

(***************************************************************************)
(* C4: a child collection whose field name matches no relation is skipped: *)
(* the output has no table and no rows for it, and no error is raised;     *)
(* stated here for the pages all of whose items have a scalar.             *)
(***************************************************************************)
C4_UnrequestedCollectionSkipped ==
    ItemsHaveScalars =>
        /\ p_pc # "raised"
        /\ p_pc = "returned" => ChildTables \subseteq RelationFields

(***************************************************************************)
(* C5: a nested object starts no table; each scalar below it lands in the  *)
(* current row of the enclosing table under the names of all enclosing     *)
(* nested objects and its own, joined with "_"; the rows of a child        *)
(* collection start a fresh naming scope. Stated for the first record of   *)
(* the page, whose rows are the first rows of every table.                 *)
(***************************************************************************)
KeyNames(t) ==
    IF t \in RelationFields THEN SeqRange(RelationKeys(t)) ELSE SeqRange(DEFAULT_PKEYS)

ForeignKeyNames(t) ==
    {c.parent.DOClassName \o "_" \o k : c \in CollectionsNamed(t), k \in KeyNames(t) \cup {"None"}}

ItemNames(t) ==
    UNION {QualifiedNames(it) : it \in UNION {SeqRange(c.node.Value.Items) : c \in CollectionsNamed(t)}}

C5_NestedMergesIntoRow ==
    (p_pc # "raised" /\ row_i >= 2) =>
        LET rec == json_data[1]
            main == final_data[main_table_name]
        IN /\ DOMAIN final_data \subseteq {main_table_name} \cup {c.node.Name : c \in PageCollections}
           /\ \A s \in ScalarsOf(rec, <<>>) :
                LET q == JoinUnderscore(s.path, s.name)
                IN /\ Len(main) >= 1
                   /\ q \in DOMAIN main[1]
                   /\ main[1][q] = s.value
           /\ \A c \in CollectionsIn(rec) :
                \A m \in 1..Len(c.node.Value.Items) :
                    \A s \in ScalarsOf(c.node.Value.Items[m], <<>>) :
                        LET q == JoinUnderscore(s.path, s.name)
                            rows == final_data[c.node.Name]
                        IN /\ Len(rows) >= m
                           /\ q \in DOMAIN rows[m]
                           /\ (Cardinality({c2 \in CollectionsIn(rec) : c2.node.Name = c.node.Name}) = 1
                                  => rows[m][q] = s.value)
           /\ \A t \in ChildTables :
                \A row \in SeqRange(final_data[t]) :
                    DOMAIN row \subseteq ItemNames(t) \cup ForeignKeyNames(t)

\* a record has been flattened that holds a two-level nested object, a child collection
\* inside a nested object, and a child item that itself holds a nested object
C5_Witness ==
    /\ p_pc = "returned"
    /\ Len(final_data[main_table_name]) >= 1
    /\ "Address_Geo_Lat" \in DOMAIN final_data[main_table_name][1]
    /\ \E c \in CollectionsIn(json_data[1]) :
          /\ c.parent.DOClassName = "Address"
          /\ c.node.Value.Items # <<>>
    /\ "Lines" \in DOMAIN final_data
    /\ \E row \in SeqRange(final_data["Lines"]) : "Address_City" \in DOMAIN row

(***************************************************************************)
(* C8: flattening is deterministic and stateless: what a page yields for   *)
(* every table is the rows each record yields when flattened alone by a    *)
(* parser call of its own, in record order; equal records yield equal rows *)
(* wherever they stand in the page.                                        *)
(***************************************************************************)
Alone(i) == parse_data(child_objects, <<json_data[i]>>, main_table_name)

RowsAlone(i, t) ==
    IF t \in DOMAIN Alone(i).table_data THEN Alone(i).table_data[t] ELSE <<>>

RECURSIVE RowsUpTo(_, _)
RowsUpTo(n, t) == IF n = 0 THEN <<>> ELSE RowsUpTo(n - 1, t) \o RowsAlone(n, t)

Metadata(cls, pks, children) ==
    [ClassName |-> cls,
     PrimaryKeyFieldList |-> [j \in 1..Len(pks) |-> [FieldName |-> pks[j]]],
     ChildList |-> children]
ChildDecl(f, cls) == [FieldName |-> f, ChildClassName |-> cls]

class_name(metadata) == metadata.ClassName
child_list(metadata) == metadata.ChildList

primary_keys(metadata) ==
    [j \in 1..Len(metadata.PrimaryKeyFieldList) |-> metadata.PrimaryKeyFieldList[j].FieldName]

primary_key_names(metadata) ==
    [j \in 1..Len(metadata.PrimaryKeyFieldList) |-> metadata.PrimaryKeyFieldList[j].FieldName]

\* the first declared child whose FieldName is child_field_name, 0 when there is none
first_child(metadata, child_field_name) ==
    LET hits == {j \in 1..Len(child_list(metadata)) :
                    child_list(metadata)[j].FieldName = child_field_name}
    IN IF hits = {} THEN 0 ELSE CHOOSE j \in hits : \A j2 \in hits : j <= j2

get_child_class_name_from_field_name(metadata, child_field_name) ==
    LET j == first_child(metadata, child_field_name)
    IN IF j = 0 THEN PyNone ELSE PyStr(child_list(metadata)[j].ChildClassName)

get_child_metadata(metadata, child_field_name) ==
    LET j == first_child(metadata, child_field_name)
    IN IF j = 0 THEN PyNone
       ELSE [ClassName |-> child_list(metadata)[j].ChildClassName,
             FieldName |-> child_list(metadata)[j].FieldName,
             ParentClassName |-> metadata.ClassName,
             ParentPrimaryKeys |-> primary_keys(metadata)]

(***************************************************************************)
(* The child-relationship resolver (src/src/component.py)                  *)
(***************************************************************************)
\* Python truthiness of an optional str
Truthy(x) == x.py = "str" /\ x.s # ""

\* A field string is the sequence of its tokens: names, and "." for each dot.
HasDot(field) == \E j \in 1..Len(field) : field[j] = "."

\* str.split(".")
RECURSIVE split_dot(_)
split_dot(field) ==
    IF ~HasDot(field) THEN <<field>>
    ELSE LET k == CHOOSE j \in 1..Len(field) :
                     field[j] = "." /\ \A j2 \in 1..(j - 1) : field[j2] # "."
         IN <<SubSeq(field, 1, k - 1)>> \o split_dot(SubSeq(field, k + 1, Len(field)))

\* ".".join(parts)
RECURSIVE join_dot(_)
join_dot(parts) ==
    IF parts = <<>> THEN <<>>
    ELSE IF Len(parts) = 1 THEN parts[1]
    ELSE parts[1] \o <<".">> \o join_dot(Tail(parts))

\* the str a dot-free token sequence spells
RECURSIVE StrOf(_)
StrOf(tokens) == IF tokens = <<>> THEN "" ELSE Head(tokens) \o StrOf(Tail(tokens))

\* Component._get_object_metadata over the classes the K2 API knows (store)
_get_object_metadata(store, object_class_name) ==
    IF object_class_name \in DOMAIN store
    THEN [err |-> "", metadata |-> store[object_class_name]]
    ELSE [err |-> "UserException", metadata |-> PyNone]

RECURSIVE _find_child_object(_, _, _, _)

\* the walk that stays in the parent's metadata instead of descending into the child's
_find_child_object_same_metadata(store, object_metadata, k2_object_field, all_child_objects) ==
    IF HasDot(k2_object_field)
    THEN LET split_text == split_dot(k2_object_field)
             main_field_name == StrOf(split_text[1])
             main_class_name ==
                 get_child_class_name_from_field_name(object_metadata, main_field_name)
         IN IF Truthy(main_class_name)
            THEN _find_child_object(store, object_metadata, join_dot(Tail(split_text)),
                     Append(all_child_objects,
                            get_child_metadata(object_metadata, main_field_name)))
            ELSE [err |-> "", all |-> all_child_objects]
    ELSE IF Truthy(get_child_class_name_from_field_name(object_metadata, StrOf(k2_object_field)))
         THEN [err |-> "", all |-> Append(all_child_objects,
                                get_child_metadata(object_metadata, StrOf(k2_object_field)))]
         ELSE [err |-> "", all |-> all_child_objects]

_find_child_object(store, object_metadata, k2_object_field, all_child_objects) ==
    IF HasDot(k2_object_field)
    THEN LET split_text == split_dot(k2_object_field)
             main_field_name == StrOf(split_text[1])
             main_class_name ==
                 get_child_class_name_from_field_name(object_metadata, main_field_name)
         IN IF Truthy(main_class_name)
            THEN LET child_object_metadata == _get_object_metadata(store, main_class_name.s)
                 IN IF child_object_metadata.err # ""
                    THEN [err |-> child_object_metadata.err, all |-> all_child_objects]
                    ELSE _find_child_object(store, child_object_metadata.metadata,
                             join_dot(Tail(split_text)),
                             Append(all_child_objects,
                                    get_child_metadata(object_metadata, main_field_name)))
            ELSE [err |-> "", all |-> all_child_objects]
    ELSE IF Truthy(get_child_class_name_from_field_name(object_metadata, StrOf(k2_object_field)))
         THEN [err |-> "", all |-> Append(all_child_objects,
                                get_child_metadata(object_metadata, StrOf(k2_object_field)))]
         ELSE [err |-> "", all |-> all_child_objects]

\* Component._find_child_objects as a whole (the state machine below runs it per field)
RECURSIVE _find_child_objects_from(_, _, _, _, _)
_find_child_objects_from(store, object_metadata, k2_object_fields, i, all_child_objects) ==
    IF i > Len(k2_object_fields) THEN [err |-> "", all |-> all_child_objects]
    ELSE LET found == _find_child_object(store, object_metadata, k2_object_fields[i], <<>>)
         IN IF found.err # "" THEN [err |-> found.err, all |-> all_child_objects]
            ELSE _find_child_objects_from(store, object_metadata, k2_object_fields, i + 1,
                                          all_child_objects \o found.all)

_find_child_objects(store, k2_object_class_name, k2_object_fields) ==
    LET object_metadata == _get_object_metadata(store, k2_object_class_name)
    IN IF object_metadata.err # "" THEN [err |-> object_metadata.err, all |-> <<>>]
       ELSE _find_child_objects_from(store, object_metadata.metadata, k2_object_fields, 1, <<>>)

(***************************************************************************)
(* Inputs of the resolver: the metadata the K2 API serves, the field list  *)
(***************************************************************************)
MaxFields == 3     \* most fields in the requested field list

\* Order -> Items: OrderLine -> Taxes: Tax
StoreChain ==
    ("Order" :> Metadata("Order", <<"Id">>, <<ChildDecl("Items", "OrderLine")>>))
    @@ ("OrderLine" :> Metadata("OrderLine", <<"LineId", "Seq">>, <<ChildDecl("Taxes", "Tax")>>))
    @@ ("Tax" :> Metadata("Tax", <<"TaxId">>, <<>>))

\* Items is a child of its own class, and Taxes names a class the API has no metadata for
StoreLoop ==
    ("Order" :> Metadata("Order", <<"Id">>,
                         <<ChildDecl("Items", "OrderLine"), ChildDecl("Taxes", "Ghost")>>))
    @@ ("OrderLine" :> Metadata("OrderLine", <<"LineId">>,
                                <<ChildDecl("Items", "OrderLine"), ChildDecl("Taxes", "Ghost")>>))

ResolverSetups ==
    { [store |-> StoreChain, class |-> "Order"],
      [store |-> StoreLoop, class |-> "Order"],
      [store |-> StoreLoop, class |-> "Ghost"] }

\* the requested paths, as their segments; the field string is their "."-join
FieldPaths ==
    { <<<<"Items">>>>,
      <<<<"Taxes">>>>,
      <<<<"Items">>, <<"Taxes">>>>,
      <<<<"Items">>, <<"Items">>>>,
      <<<<"Taxes">>, <<"Items">>>>,
      <<<<"Items">>, <<"Taxes">>, <<"Items">>>>,
      <<<<"Items">>, <<>>>>,
      <<<<>>>> }

FieldStrings == {join_dot(path) : path \in FieldPaths}

(***************************************************************************)
(* Component._find_child_objects as a state machine: one field per step    *)
(***************************************************************************)
ResolverOff ==
    /\ r_store = <<>> /\ r_class = "" /\ r_fields = <<>> /\ r_metadata = PyNone
    /\ r_i = 0 /\ r_last = <<>> /\ r_all = <<>> /\ r_pc = "off"

ResolverStart ==
    /\ \E setup \in ResolverSetups : r_store = setup.store /\ r_class = setup.class
    /\ r_fields \in SeqUpTo(FieldStrings, MaxFields)
    /\ r_metadata = PyNone
    /\ r_i = 0
    /\ r_last = <<>>
    /\ r_all = <<>>
    /\ r_pc = "start"

\* lines 320-321: fetch the root metadata, all_child_objects = []
ResolveMetadata ==
    /\ r_pc = "start"
    /\ LET object_metadata == _get_object_metadata(r_store, r_class)
       IN IF object_metadata.err # ""
          THEN /\ r_pc' = "raised"
               /\ UNCHANGED <<r_metadata, r_i>>
          ELSE /\ r_metadata' = object_metadata.metadata
               /\ r_i' = 1
               /\ r_pc' = "loop"
    /\ UNCHANGED <<r_store, r_class, r_fields, r_last, r_all>>
    /\ UNCHANGED NotResolver

\* lines 322-324: one iteration of the loop over k2_object_fields
ResolveField ==
    /\ r_pc = "loop"
    /\ r_i <= Len(r_fields)
    /\ LET found == _find_child_object(r_store, r_metadata, r_fields[r_i], <<>>)
       IN IF found.err # ""
          THEN /\ r_pc' = "raised"
               /\ UNCHANGED <<r_i, r_last, r_all>>
          ELSE /\ r_last' = found.all
               /\ r_all' = r_all \o found.all
               /\ r_i' = r_i + 1
               /\ r_pc' = "loop"
    /\ UNCHANGED <<r_store, r_class, r_fields, r_metadata>>
    /\ UNCHANGED NotResolver

\* line 325: return all_child_objects
ResolveReturn ==
    /\ r_pc = "loop"
    /\ r_i > Len(r_fields)
    /\ r_pc' = "returned"
    /\ UNCHANGED <<r_store, r_class, r_fields, r_metadata, r_i, r_last, r_all>>
    /\ UNCHANGED NotResolver

(***************************************************************************)
(* Component._update_conditions_with_incremental_options                   *)
(***************************************************************************)
\* f"{x}" of an optional str
FormatStr(x) == IF x.py = "None" THEN "None" ELSE x.s

\* the update that does not look at date_to
_update_conditions_ignoring_date_to(date_from, date_to, conditions, incremental_field) ==
    IF Truthy(incremental_field) /\ Truthy(date_from)
    THEN LET incremental_condition ==
                 FormatStr(incremental_field) \o ";GE;" \o FormatStr(date_from) \o ","
                 \o FormatStr(incremental_field) \o ";LE;" \o FormatStr(date_to)
         IN IF Truthy(conditions)
            THEN PyStr(FormatStr(conditions) \o "," \o incremental_condition)
            ELSE PyStr(incremental_condition)
    ELSE conditions

_update_conditions_with_incremental_options(date_from, date_to, conditions, incremental_field) ==
    IF Truthy(incremental_field) /\ Truthy(date_from) /\ Truthy(date_to)
    THEN LET incremental_condition ==
                 FormatStr(incremental_field) \o ";GE;" \o FormatStr(date_from) \o ","
                 \o FormatStr(incremental_field) \o ";LE;" \o FormatStr(date_to)
         IN IF Truthy(conditions)
            THEN PyStr(FormatStr(conditions) \o "," \o incremental_condition)
            ELSE PyStr(incremental_condition)
    ELSE conditions

CondOff ==
    /\ c_date_from = PyNone /\ c_date_to = PyNone /\ c_conditions = PyNone
    /\ c_field = PyNone /\ c_result = PyNone /\ c_pc = "off"

CondStart ==
    /\ c_date_from \in {PyNone, PyStr(""), PyStr("from")}
    /\ c_date_to \in {PyNone, PyStr(""), PyStr("to")}
    /\ c_conditions \in {PyNone, PyStr(""), PyStr("condition"), PyStr("A;EQ;1")}
    /\ c_field \in {PyNone, PyStr(""), PyStr("incremental")}
    /\ c_result = PyNone
    /\ c_pc = "call"

UpdateConditions ==
    /\ c_pc = "call"
    /\ c_result' = _update_conditions_with_incremental_options(c_date_from, c_date_to,
                                                               c_conditions, c_field)
    /\ c_pc' = "done"
    /\ UNCHANGED <<c_date_from, c_date_to, c_conditions, c_field>>
    /\ UNCHANGED NotCond

(***************************************************************************)
(* Component: configuration, run state and dates (src/src/component.py)    *)
(***************************************************************************)
\* dict.get(key, default)
DictGet(d, key, default) == IF key \in DOMAIN d THEN d[key] ELSE default

\* a str given by its tokens: names, and one token for each "," "." and " "
PyTokens(t) == [py |-> "str", tokens |-> t]
TruthyTokens(x) == x.py = "str" /\ x.tokens # <<>>

\* str.strip() of a token sequence
RECURSIVE strip(_)
strip(t) ==
    IF t = <<>> THEN t
    ELSE IF Head(t) = " " THEN strip(Tail(t))
    ELSE IF t[Len(t)] = " " THEN strip(SubSeq(t, 1, Len(t) - 1))
    ELSE t

\* str.split(",")
RECURSIVE split_comma(_)
split_comma(t) ==
    IF \A j \in 1..Len(t) : t[j] # "," THEN <<t>>
    ELSE LET k == CHOOSE j \in 1..Len(t) :
                     t[j] = "," /\ \A j2 \in 1..(j - 1) : t[j2] # ","
         IN <<SubSeq(t, 1, k - 1)>> \o split_comma(SubSeq(t, k + 1, Len(t)))

\* keboola.utils.helpers.comma_separated_values_to_list
comma_separated_values_to_list(param) ==
    IF TruthyTokens(param)
    THEN LET parts == split_comma(param.tokens)
         IN [j \in 1..Len(parts) |-> strip(parts[j])]
    ELSE <<>>

_get_fields_to_fetch(params) ==
    IF TruthyTokens(params.fields)
    THEN PyTokens(SelectSeq(params.fields.tokens, LAMBDA t : t # " "))
    ELSE params.fields

_fetching_is_incremental(params) == params.load_type = "Incremental load"

_get_incremental_field(params) ==
    IF _fetching_is_incremental(params) THEN params.incremental_field ELSE PyNone

\* the time datetime.now() formats to
NOW == "now"

\* dateparser.parse: the inputs it understands, and what strftime makes of the result
DateParses(s) == s \in {"2020-01-01", "1990-01-01"}
FormatDate(s) == s \o " 00:00:00"

_get_parsed_date(date_input, last_run) ==
    IF ~Truthy(date_input) THEN [err |-> "", date |-> PyNone]
    ELSE IF date_input.s \in {"last", "last run"} /\ Truthy(last_run)
    THEN [err |-> "", date |-> PyStr(last_run.s)]
    ELSE IF date_input.s \in {"now", "today"} THEN [err |-> "", date |-> PyStr(NOW)]
    ELSE IF date_input.s \in {"last", "last run"}
    THEN [err |-> "", date |-> PyStr(FormatDate("1990-01-01"))]
    ELSE IF DateParses(date_input.s)
    THEN [err |-> "", date |-> PyStr(FormatDate(date_input.s))]
    ELSE [err |-> "UserException", date |-> PyNone]

_get_date_from(params, st) ==
    IF _fetching_is_incremental(params)
    THEN _get_parsed_date(params.date_from, DictGet(st, "last_run", PyNone))
    ELSE [err |-> "", date |-> PyNone]

_get_date_to(params) ==
    IF _fetching_is_incremental(params)
    THEN _get_parsed_date(params.date_to, PyStr("now"))
    ELSE [err |-> "", date |-> PyNone]

\* the check that looks at the incremental field only
_validate_fetching_mode_field_only(params, d_from, d_to) ==
    /\ _fetching_is_incremental(params)
    /\ ~Truthy(_get_incremental_field(params))

\* TRUE when _validate_fetching_mode raises
_validate_fetching_mode(params, d_from, d_to) ==
    /\ _fetching_is_incremental(params)
    /\ (~Truthy(_get_incremental_field(params)) \/ ~Truthy(d_from) \/ ~Truthy(d_to))

_get_fetching_conditions(params, d_from, d_to) ==
    _update_conditions_with_incremental_options(d_from, d_to, params.conditions,
                                                _get_incremental_field(params))

_init_new_state(statefile) ==
    [last_run |-> PyStr(NOW),
     previous_columns |-> IF DOMAIN statefile # {}
                          THEN DictGet(statefile, "previous_columns", EmptyDict)
                          ELSE EmptyDict]

_get_fields_from_previous_run(st, object_name) ==
    DictGet(DictGet(st, "previous_columns", EmptyDict), object_name, EmptyList)

(***************************************************************************)
(* Table handlers and their writers (src/src/component.py)                 *)
(* ElasticDictWriter (keboola.csvwriter) is a library: it starts from the  *)
(* column list it is given, appends every column it has not seen yet after *)
(* the ones it knows, and never drops one. The writer keeps its own list.  *)
(***************************************************************************)
RECURSIVE SetToSeq(_)
SetToSeq(S) ==
    IF S = {} THEN <<>>
    ELSE LET x == CHOOSE x \in S : TRUE IN <<x>> \o SetToSeq(S \ {x})

\* ElasticDictWriter(path, fieldnames)
ElasticDictWriter(fieldnames) ==
    [seeded |-> fieldnames, fieldnames |-> fieldnames, rows |-> <<>>, closed |-> FALSE]

\* writer.writerow(row)
writerow(writer, row) ==
    LET known == {writer.fieldnames[j] : j \in 1..Len(writer.fieldnames)}
    IN [writer EXCEPT !.fieldnames = @ \o SetToSeq(DOMAIN row \ known),
                      !.rows = Append(@, row)]

\* writer.writerows(rows)
RECURSIVE writerows(_, _)
writerows(writer, rows) ==
    IF rows = <<>> THEN writer ELSE writerows(writerow(writer, Head(rows)), Tail(rows))

\* TableHandler(table_definition, writer, object_metadata), under its key in table_handlers
TableHandler(name, primary_key, incremental, writer, metadata) ==
    [name |-> name, primary_key |-> primary_key, incremental |-> incremental,
     writer |-> writer, object_metadata |-> metadata]

\* position of key name in the dict, 0 when it is not a key
KeyIndex(handlers, name) ==
    LET hits == {j \in 1..Len(handlers) : handlers[j].name = name}
    IN IF hits = {} THEN 0 ELSE CHOOSE j \in hits : TRUE

\* self.table_handlers[handler.name] = handler
set_handler(handlers, handler) ==
    IF KeyIndex(handlers, handler.name) = 0 THEN Append(handlers, handler)
    ELSE [handlers EXCEPT ![KeyIndex(handlers, handler.name)] = handler]

_add_parent_prefix_to_keys(parent_prefix, pkeys) ==
    [j \in 1..Len(pkeys) |-> parent_prefix \o "_" \o pkeys[j]]

_init_main_table_handler(st, handlers, metadata, incremental_load) ==
    LET object_name == class_name(metadata)
        object_fields_from_previous_run == _get_fields_from_previous_run(st, object_name)
    IN set_handler(handlers,
                   TableHandler(object_name, primary_keys(metadata), incremental_load,
                                ElasticDictWriter(object_fields_from_previous_run), metadata))

_init_child_table_handler(store, st, handlers, child_object, incremental) ==
    LET parent_class_name == child_object.ParentClassName
        child_class_name == child_object.ClassName
        child_field_name == child_object.FieldName
        full_name == parent_class_name \o "_" \o child_field_name
        found == _get_object_metadata(store, child_object.ClassName)
        parent_keys_with_prefix ==
            _add_parent_prefix_to_keys(parent_class_name, child_object.ParentPrimaryKeys)
        child_prev_columns ==
            DictGet(DictGet(st, "previous_columns", EmptyDict), child_class_name, EmptyList)
    IN IF found.err # "" THEN [err |-> found.err, handlers |-> handlers]
       ELSE [err |-> "",
             handlers |->
                set_handler(handlers,
                    TableHandler(full_name,
                                 primary_key_names(found.metadata) \o parent_keys_with_prefix,
                                 incremental, ElasticDictWriter(child_prev_columns),
                                 found.metadata))]

RECURSIVE _init_child_table_handlers_from(_, _, _, _, _, _)
_init_child_table_handlers_from(store, st, handlers, children, i, incremental) ==
    IF i > Len(children) THEN [err |-> "", handlers |-> handlers]
    ELSE LET made == _init_child_table_handler(store, st, handlers, children[i], incremental)
         IN IF made.err # "" THEN made
            ELSE _init_child_table_handlers_from(store, st, made.handlers, children, i + 1,
                                                 incremental)

_init_child_table_handlers(store, st, handlers, parent_object_metadata, fields, incremental) ==
    LET parsed_fields == comma_separated_values_to_list(fields)
        found == _find_child_objects(store, class_name(parent_object_metadata), parsed_fields)
    IN IF found.err # "" THEN [err |-> found.err, handlers |-> handlers]
       ELSE _init_child_table_handlers_from(store, st, handlers, found.all, 1, incremental)

_init_table_handlers(store, params, st, handlers, metadata, fields_to_fetch) ==
    LET incremental_load == _fetching_is_incremental(params)
    IN _init_child_table_handlers(store, st,
           _init_main_table_handler(st, handlers, metadata, incremental_load),
           metadata, fields_to_fetch, incremental_load)

\* child_foreign_keys[key_name] = parents_primary_keys, the dict kept in insertion order
set_item(d, key, value) ==
    LET hits == {j \in 1..Len(d) : d[j].key = key}
    IN IF hits = {} THEN Append(d, [key |-> key, value |-> value])
       ELSE [j \in 1..Len(d) |-> IF j \in hits THEN [key |-> key, value |-> value] ELSE d[j]]

RECURSIVE _get_child_foreign_keys_from(_, _, _, _)
_get_child_foreign_keys_from(store, children, i, child_foreign_keys) ==
    IF i > Len(children) THEN [err |-> "", keys |-> child_foreign_keys]
    ELSE LET parent_metadata == _get_object_metadata(store, children[i].ParentClassName)
         IN IF parent_metadata.err # ""
            THEN [err |-> parent_metadata.err, keys |-> child_foreign_keys]
            ELSE _get_child_foreign_keys_from(store, children, i + 1,
                     set_item(child_foreign_keys,
                              class_name(parent_metadata.metadata) \o "_"
                                  \o children[i].FieldName,
                              primary_key_names(parent_metadata.metadata)))

_get_child_foreign_keys(store, parent_object_metadata, fields) ==
    LET parsed_fields == comma_separated_values_to_list(fields)
        found == _find_child_objects(store, class_name(parent_object_metadata), parsed_fields)
    IN IF found.err # "" THEN [err |-> found.err, keys |-> <<>>]
       ELSE _get_child_foreign_keys_from(store, found.all, 1, <<>>)

\* lines 183-185: the rows of every parsed table that has a handler go to its writer
route_parsed_data(handlers, parsed_data) ==
    [j \in 1..Len(handlers) |->
        IF handlers[j].name \in DOMAIN parsed_data
        THEN [handlers[j] EXCEPT !.writer = writerows(@, parsed_data[handlers[j].name])]
        ELSE handlers[j]]

\* the parameters K2DataParser.__init__ accepts (k2parser.py line 12)
K2DataParser_init_parameters == {"child_objects"}

\* what iterating a dict gives: its keys
IterKeys(d) == [j \in 1..Len(d) |-> PyStr(d[j].key)]

\* K2DataParser(child_object_parent_primary_keys=child_objects).parse_data(...)
_parse_object_data(k2_data, data_object, foreign_keys) ==
    IF "child_object_parent_primary_keys" \notin K2DataParser_init_parameters
    THEN Raise("TypeError", EmptyDict)
    ELSE parse_data(IterKeys(foreign_keys), k2_data, data_object)

\* _close_table_handler: the manifest gets the writer's final columns, and so does the
\* new state under the handler's class name
close_writer(handler) == [handler EXCEPT !.writer.closed = TRUE]

RECURSIVE _close_table_handlers_from(_, _, _, _)
_close_table_handlers_from(handlers, i, written, ns) ==
    IF i > Len(handlers)
    THEN [handlers |-> handlers, manifests |-> written, new_state |-> ns]
    ELSE LET k2_object_name == class_name(handlers[i].object_metadata)
             final_fields == handlers[i].writer.fieldnames
         IN _close_table_handlers_from(
                [handlers EXCEPT ![i] = close_writer(@)], i + 1,
                (handlers[i].name :> final_fields) @@ written,
                [ns EXCEPT !.previous_columns = (k2_object_name :> final_fields) @@ @])

_close_table_handlers(handlers, written, ns) ==
    _close_table_handlers_from(handlers, 1, written, ns)

(***************************************************************************)
(* K2Client and the exceptions that leave _fetch_and_write_data            *)
(***************************************************************************)
\* what K2Client._handle_http_error raises for a response, "" when it raises nothing:
\* json.loads of an error body that is not JSON raises inside the except block
_handle_http_error(response) ==
    IF response.status # "HTTPError" THEN ""
    ELSE IF ~response.body_is_json THEN "JSONDecodeError"
    ELSE "K2ClientException"

\* lines 186-191: the exceptions _fetch_and_write_data turns into UserException
_fetch_and_write_data_except(e) ==
    IF e \in {"K2ClientException", "HTTPError", "ConnectionError"} THEN "UserException"
    ELSE e

(***************************************************************************)
(* What a run does to the outside: metadata and data requests, handlers    *)
(* created and closed, manifests and the state file written                *)
(***************************************************************************)
Event(ev, name) == [ev |-> ev, name |-> name]

\* the handlers _init_child_table_handlers creates, up to the one whose metadata fails
RECURSIVE _init_child_table_handlers_events(_, _, _)
_init_child_table_handlers_events(store, children, i) ==
    IF i > Len(children) THEN <<>>
    ELSE IF _get_object_metadata(store, children[i].ClassName).err # "" THEN <<>>
    ELSE <<Event("TableHandler",
                 children[i].ParentClassName \o "_" \o children[i].FieldName)>>
         \o _init_child_table_handlers_events(store, children, i + 1)

_init_table_handlers_events(store, metadata, fields_to_fetch) ==
    LET found == _find_child_objects(store, class_name(metadata),
                                     comma_separated_values_to_list(fields_to_fetch))
    IN <<Event("TableHandler", class_name(metadata)),
         Event("get_object_meta", class_name(metadata))>>
       \o (IF found.err # "" THEN <<>>
           ELSE _init_child_table_handlers_events(store, found.all, 1))

RECURSIVE _close_table_handlers_events_from(_, _)
_close_table_handlers_events_from(handlers, i) ==
    IF i > Len(handlers) THEN <<>>
    ELSE <<Event("writer.close", handlers[i].name),
           Event("write_manifest", handlers[i].name)>>
         \o _close_table_handlers_events_from(handlers, i + 1)

_close_table_handlers_events(handlers) == _close_table_handlers_events_from(handlers, 1)

(***************************************************************************)
(* Inputs of a run: configuration, state file, K2 metadata and responses   *)
(***************************************************************************)
MaxRunPages == 2    \* most data requests the K2 API answers in one run
MaxLines == 2       \* most elements of the child collection Lines
MaxBatches == 2     \* most pages routed to the writers in one run
MaxRuns == 2        \* most runs chained through the state file

\* Invoice declares Lines and Archive (both of class InvoiceLine) and Notes, whose
\* class the K2 API has no metadata for
StoreInvoice ==
    ("Invoice" :> Metadata("Invoice", <<"Id">>,
                           <<ChildDecl("Lines", "InvoiceLine"),
                             ChildDecl("Archive", "InvoiceLine"),
                             ChildDecl("Notes", "Note")>>))
    @@ ("InvoiceLine" :> Metadata("InvoiceLine", <<"LineId">>, <<>>))

LoadingOptions ==
    { [load_type |-> "Full load", incremental_field |-> PyNone,
       date_from |-> PyNone, date_to |-> PyNone],
      [load_type |-> "Incremental load", incremental_field |-> PyStr("Timestamp"),
       date_from |-> PyStr("last run"), date_to |-> PyStr("now")],
      [load_type |-> "Incremental load", incremental_field |-> PyNone,
       date_from |-> PyStr("2020-01-01"), date_to |-> PyStr("now")],
      [load_type |-> "Incremental load", incremental_field |-> PyStr("Timestamp"),
       date_from |-> PyStr("yesterdayish"), date_to |-> PyStr("now")],
      [load_type |-> "Incremental load", incremental_field |-> PyStr("Timestamp"),
       date_from |-> PyNone, date_to |-> PyStr("now")],
      [load_type |-> "Incremental load", incremental_field |-> PyStr("Timestamp"),
       date_from |-> PyStr("2020-01-01"), date_to |-> PyStr("")] }

FieldsOptions ==
    { PyNone,
      PyTokens(<<"Number", ",", "Lines">>),
      PyTokens(<<"Lines", ",", " ", "Archive">>),
      PyTokens(<<"Lines", ",", "Notes">>),
      PyTokens(<<"Lines", ",", "Lines">>) }

Parameters(required, data_object, loading, fields, conds) ==
    [required |-> required, data_object |-> data_object,
     load_type |-> loading.load_type, incremental_field |-> loading.incremental_field,
     date_from |-> loading.date_from, date_to |-> loading.date_to,
     fields |-> fields, conditions |-> conds]

\* required: whether every one of REQUIRED_PARAMETERS is present
Configs ==
    { Parameters(required, data_object, loading, fields, PyNone) :
        required \in BOOLEAN, data_object \in {"Invoice", "Ghost"},
        loading \in LoadingOptions, fields \in FieldsOptions }

StateFiles ==
    { EmptyDict,
      [last_run |-> PyStr("2024-01-01 00:00:00"),
       previous_columns |-> ("Invoice" :> <<"Id", "Number">>)
                            @@ ("Customer" :> <<"Id", "Name">>)] }

RunLineItems ==
    { Obj("InvoiceLine", <<Scalar("LineId", k), Scalar("Qty", 1)>>) : k \in 1..2 }

RunRecords ==
    { Obj("Invoice", <<Scalar("Id", 5), Scalar("Number", 7), Child("Lines", items)>>) :
        items \in SeqUpTo(RunLineItems, MaxLines) }

RunPages == {<<>>} \cup {<<r>> : r \in RunRecords}

\* a response of the K2 API to a data request
OkResponse(items, next) == [status |-> "ok", Items |-> items, NextPageURL |-> next]
\* a response raise_for_status rejects; its body carries the error as JSON, or does not
HttpErrorResponse(code, body_is_json) ==
    [status |-> "HTTPError", code |-> code, body_is_json |-> body_is_json]
\* get_raw raising requests.exceptions.ConnectionError
ConnectionFailure == [status |-> "ConnectionError"]
ErrorResponses ==
    { HttpErrorResponse(400, TRUE), HttpErrorResponse(401, TRUE),
      HttpErrorResponse(500, TRUE), HttpErrorResponse(500, FALSE), ConnectionFailure }
FinalResponses ==
    {OkResponse(items, PyNone) : items \in RunPages} \cup ErrorResponses

\* every response but the last names a next page
RECURSIVE ResponseChains(_)
ResponseChains(n) ==
    IF n = 1 THEN {<<r>> : r \in FinalResponses}
    ELSE ResponseChains(n - 1)
         \cup {<<OkResponse(<<r>>, PyStr("next"))>> \o rest :
                 r \in {Obj("Invoice", <<Scalar("Id", 6)>>)}, rest \in ResponseChains(n - 1)}

\* what the parser hands back for one page, for the handlers on their own; the last
\* one is what parse_data makes of an invoice with one line
ParsedBatches ==
    { EmptyDict,
      ("Invoice" :> <<("Id" :> PyVal(5)) @@ ("Number" :> PyVal(7))>>)
        @@ ("Invoice_Lines" :> <<("LineId" :> PyVal(1)) @@ ("Invoice_Id" :> PyVal(5))>>)
        @@ ("Invoice_Archive" :> <<("Old" :> PyVal(1)) @@ ("Invoice_Id" :> PyVal(5))>>),
      ("Invoice" :> <<("Id" :> PyVal(6)) @@ ("Total" :> PyVal(9))>>)
        @@ ("Invoice_Lines" :> <<("Qty" :> PyVal(2)) @@ ("Invoice_Id" :> PyVal(6))>>)
        @@ ("Lines" :> <<("LineId" :> PyVal(2)) @@ ("Invoice_Id" :> PyVal(6))>>),
      parse_data(<<Relation("Lines", <<"Id">>)>>,
                 <<Obj("Invoice", <<Scalar("Id", 5), Scalar("Number", 7),
                                    Child("Lines", <<Obj("InvoiceLine",
                                                         <<Scalar("LineId", 1)>>)>>)>>)>>,
                 "Invoice").table_data }

HandlerConfigs ==
    { Parameters(TRUE, "Invoice", loading, fields, PyNone) :
        loading \in {l \in LoadingOptions : l.load_type = "Full load"},
        fields \in FieldsOptions }

(***************************************************************************)
(* Component.run as a state machine (src/src/component.py lines 74-102)    *)
(* use_ssh is not set, so no tunnel is opened.                              *)
(***************************************************************************)
RunOff ==
    /\ config = EmptyDict /\ state_file = EmptyDict /\ k2_meta = EmptyDict
    /\ k2_pages = <<>> /\ self_state = PyNone
    /\ self_date_from = PyNone /\ self_date_to = PyNone
    /\ self_new_state = EmptyDict /\ self_table_handlers = <<>>
    /\ manifests = EmptyDict /\ prev_manifests = EmptyDict
    /\ run_object_metadata = PyNone /\ child_object_foreign_keys = <<>>
    /\ run_conditions = PyNone /\ requests = 0 /\ last_page = FALSE
    /\ page_data = <<>> /\ run_parsed_data = EmptyDict /\ run_log = <<>>
    /\ run_no = 0 /\ run_error = "" /\ run_pc = "off"

\* the component after Component.__init__ (lines 63-72)
Constructed ==
    /\ self_state = PyNone
    /\ self_date_from = PyNone /\ self_date_to = PyNone
    /\ self_table_handlers = <<>>
    /\ self_new_state = _init_new_state(state_file)
    /\ manifests = EmptyDict
    /\ run_object_metadata = PyNone /\ child_object_foreign_keys = <<>>
    /\ run_conditions = PyNone /\ requests = 0 /\ last_page = FALSE
    /\ page_data = <<>> /\ run_parsed_data = EmptyDict /\ run_log = <<>>
    /\ run_error = ""

RunStart ==
    /\ config \in Configs
    /\ state_file \in StateFiles
    /\ k2_meta = StoreInvoice
    /\ k2_pages \in ResponseChains(MaxRunPages)
    /\ prev_manifests = EmptyDict
    /\ Constructed
    /\ run_no = 1
    /\ run_pc = "validate"

\* run() ends with exception e
Fails(e) == run_error' = e /\ run_pc' = "failed"

\* lines 75-82
RunValidate ==
    /\ run_pc = "validate"
    /\ UNCHANGED <<run_parsed_data, run_log>>
    /\ IF ~config.required
       THEN /\ Fails("UserException")
            /\ UNCHANGED <<self_state, self_date_from, self_date_to>>
       ELSE LET d_from == _get_date_from(config, state_file)
                d_to == _get_date_to(config)
            IN /\ self_state' = state_file
               /\ IF d_from.err # ""
                  THEN /\ Fails(d_from.err)
                       /\ UNCHANGED <<self_date_from, self_date_to>>
                  ELSE /\ self_date_from' = d_from.date
                       /\ IF d_to.err # ""
                          THEN Fails(d_to.err) /\ UNCHANGED self_date_to
                          ELSE /\ self_date_to' = d_to.date
                               /\ IF _validate_fetching_mode(config, d_from.date, d_to.date)
                                  THEN Fails("UserException")
                                  ELSE run_pc' = "metadata" /\ UNCHANGED run_error
    /\ UNCHANGED <<envVars, state_file, self_new_state, self_table_handlers, manifests,
                   prev_manifests, run_object_metadata, child_object_foreign_keys,
                   run_conditions, requests, last_page, page_data, run_no>>
    /\ UNCHANGED NotRun

\* lines 84-96
RunGetMetadata ==
    /\ run_pc = "metadata"
    /\ run_log' = Append(run_log, Event("get_object_meta", config.data_object))
    /\ UNCHANGED run_parsed_data
    /\ LET found == _get_object_metadata(k2_meta, config.data_object)
       IN IF found.err # ""
          THEN Fails(found.err) /\ UNCHANGED run_object_metadata
          ELSE /\ run_object_metadata' = found.metadata
               /\ run_pc' = "init_handlers"
               /\ UNCHANGED run_error
    /\ UNCHANGED <<envVars, state_file, self_state, self_date_from, self_date_to,
                   self_new_state, self_table_handlers, manifests, prev_manifests,
                   child_object_foreign_keys, run_conditions, requests, last_page,
                   page_data, run_no>>
    /\ UNCHANGED NotRun

\* line 98
RunInitTableHandlers ==
    /\ run_pc = "init_handlers"
    /\ run_log' = run_log \o _init_table_handlers_events(k2_meta, run_object_metadata,
                                                         _get_fields_to_fetch(config))
    /\ UNCHANGED run_parsed_data
    /\ LET made == _init_table_handlers(k2_meta, config, self_state, self_table_handlers,
                                        run_object_metadata, _get_fields_to_fetch(config))
       IN /\ self_table_handlers' = made.handlers
          /\ IF made.err # "" THEN Fails(made.err)
             ELSE run_pc' = "prepare" /\ UNCHANGED run_error
    /\ UNCHANGED <<envVars, state_file, self_state, self_date_from, self_date_to,
                   self_new_state, manifests, prev_manifests, run_object_metadata,
                   child_object_foreign_keys, run_conditions, requests, last_page,
                   page_data, run_no>>
    /\ UNCHANGED NotRun

\* lines 175-177, and get_object_data up to its loop (client.py lines 79-84)
RunPrepareFetch ==
    /\ run_pc = "prepare"
    /\ run_log' = Append(run_log,
                         Event("get_object_meta", class_name(run_object_metadata)))
    /\ UNCHANGED run_parsed_data
    /\ LET found == _get_child_foreign_keys(k2_meta, run_object_metadata,
                                            _get_fields_to_fetch(config))
       IN IF found.err # ""
          THEN Fails(found.err) /\ UNCHANGED <<child_object_foreign_keys, run_conditions>>
          ELSE /\ child_object_foreign_keys' = found.keys
               /\ run_conditions' =
                      _get_fetching_conditions(config, self_date_from, self_date_to)
               /\ run_pc' = "fetch"
               /\ UNCHANGED run_error
    /\ last_page' = FALSE
    /\ UNCHANGED <<envVars, state_file, self_state, self_date_from, self_date_to,
                   self_new_state, self_table_handlers, manifests, prev_manifests,
                   run_object_metadata, requests, page_data, run_no>>
    /\ UNCHANGED NotRun

\* one iteration of get_object_data's loop (client.py lines 85-96); what it raises
\* leaves run() as a UserException (lines 186-191)
RunFetchPage ==
    /\ run_pc = "fetch"
    /\ ~last_page
    /\ requests < Len(k2_pages)
    /\ requests' = requests + 1
    /\ run_log' = Append(run_log, Event("get_raw", ""))
    /\ UNCHANGED run_parsed_data
    /\ LET response == k2_pages[requests + 1]
           raised == IF response.status = "ConnectionError" THEN "ConnectionError"
                     ELSE _handle_http_error(response)
       IN IF raised # ""
          THEN Fails(_fetch_and_write_data_except(raised))
               /\ UNCHANGED <<last_page, page_data>>
          ELSE /\ last_page' = ~Truthy(response.NextPageURL)
               /\ page_data' = response.Items
               /\ run_pc' = "process"
               /\ UNCHANGED run_error
    /\ UNCHANGED <<envVars, state_file, self_state, self_date_from, self_date_to,
                   self_new_state, self_table_handlers, manifests, prev_manifests,
                   run_object_metadata, child_object_foreign_keys, run_conditions, run_no>>
    /\ UNCHANGED NotRun

\* lines 180-185 for the page just yielded; after the last page the loop ends
RunProcessPage ==
    /\ run_pc = "process"
    /\ run_log' = Append(run_log, Event("parse", ""))
    /\ LET parsed_data == _parse_object_data(page_data, class_name(run_object_metadata),
                                             child_object_foreign_keys)
       IN IF parsed_data.err # ""
          THEN /\ Fails(_fetch_and_write_data_except(parsed_data.err))
               /\ UNCHANGED <<self_table_handlers, run_parsed_data>>
          ELSE /\ run_parsed_data' = parsed_data.table_data
               /\ self_table_handlers' =
                      route_parsed_data(self_table_handlers, parsed_data.table_data)
               /\ run_pc' = IF last_page THEN "close" ELSE "fetch"
               /\ UNCHANGED run_error
    /\ UNCHANGED <<envVars, state_file, self_state, self_date_from, self_date_to,
                   self_new_state, manifests, prev_manifests, run_object_metadata,
                   child_object_foreign_keys, run_conditions, requests, last_page,
                   page_data, run_no>>
    /\ UNCHANGED NotRun

\* line 100
RunCloseTableHandlers ==
    /\ run_pc = "close"
    /\ run_log' = run_log \o _close_table_handlers_events(self_table_handlers)
    /\ UNCHANGED run_parsed_data
    /\ LET closed == _close_table_handlers(self_table_handlers, manifests, self_new_state)
       IN /\ self_table_handlers' = closed.handlers
          /\ manifests' = closed.manifests
          /\ self_new_state' = closed.new_state
    /\ run_pc' = "write_state"
    /\ UNCHANGED <<envVars, state_file, self_state, self_date_from, self_date_to,
                   prev_manifests, run_object_metadata, child_object_foreign_keys,
                   run_conditions, requests, last_page, page_data, run_no, run_error>>
    /\ UNCHANGED NotRun

\* line 102
RunWriteState ==
    /\ run_pc = "write_state"
    /\ run_log' = Append(run_log, Event("write_state_file", ""))
    /\ UNCHANGED run_parsed_data
    /\ state_file' = self_new_state
    /\ run_pc' = "done"
    /\ UNCHANGED <<envVars, self_state, self_date_from, self_date_to, self_new_state,
                   self_table_handlers, manifests, prev_manifests, run_object_metadata,
                   child_object_foreign_keys, run_conditions, requests, last_page,
                   page_data, run_no, run_error>>
    /\ UNCHANGED NotRun

(***************************************************************************)
(* The table handlers on their own: created, fed the parser's result page  *)
(* by page, closed, and the state handed to the next run                   *)
(***************************************************************************)
HandlersStart ==
    /\ config \in HandlerConfigs
    /\ state_file \in {EmptyDict,
                       [last_run |-> PyStr("2024-01-01 00:00:00"),
                        previous_columns |-> ("Customer" :> <<"Id", "Name">>)]}
    /\ k2_meta = StoreInvoice
    /\ k2_pages = <<>>
    /\ prev_manifests = EmptyDict
    /\ self_state = state_file
    /\ self_date_from = PyNone /\ self_date_to = PyNone
    /\ self_table_handlers = <<>>
    /\ self_new_state = _init_new_state(state_file)
    /\ manifests = EmptyDict
    /\ run_object_metadata = StoreInvoice["Invoice"]
    /\ child_object_foreign_keys = <<>>
    /\ run_conditions = PyNone /\ requests = 0 /\ last_page = FALSE
    /\ page_data = <<>> /\ run_parsed_data = EmptyDict /\ run_log = <<>>
    /\ run_error = ""
    /\ run_no = 1
    /\ run_pc = "init_handlers"

\* lines 183-185 for one page's parsed_data; last tells whether it was the last page
HandlersRoute ==
    /\ run_pc = "prepare"
    /\ requests < MaxBatches
    /\ \E parsed_data \in ParsedBatches :
          /\ run_parsed_data' = parsed_data
          /\ self_table_handlers' = route_parsed_data(self_table_handlers, parsed_data)
    /\ run_log' = run_log \o <<Event("get_raw", ""), Event("parse", "")>>
    /\ requests' = requests + 1
    /\ \E last \in (IF requests + 1 = MaxBatches THEN {TRUE} ELSE BOOLEAN) :
          /\ last_page' = last
          /\ run_pc' = IF last THEN "close" ELSE "prepare"
    /\ UNCHANGED <<envVars, state_file, self_state, self_date_from, self_date_to,
                   self_new_state, manifests, prev_manifests, run_object_metadata,
                   child_object_foreign_keys, run_conditions, page_data, run_no, run_error>>
    /\ UNCHANGED NotRun

\* the next run, with the field list the user has configured by then:
\* Component.__init__ and line 78
HandlersNextRun ==
    /\ run_pc = "done"
    /\ run_no < MaxRuns
    /\ run_no' = run_no + 1
    /\ config' \in HandlerConfigs
    /\ prev_manifests' = manifests @@ prev_manifests
    /\ manifests' = EmptyDict
    /\ self_state' = state_file
    /\ self_new_state' = _init_new_state(state_file)
    /\ self_table_handlers' = <<>>
    /\ run_parsed_data' = EmptyDict
    /\ run_log' = <<>>
    /\ requests' = 0
    /\ last_page' = FALSE
    /\ run_pc' = "init_handlers"
    /\ UNCHANGED <<k2_meta, k2_pages, state_file, self_date_from, self_date_to,
                   run_object_metadata, child_object_foreign_keys, run_conditions,
                   page_data, run_error>>
    /\ UNCHANGED NotRun

(***************************************************************************)
(* K2Client.get_object_data as a state machine (src/src/client/client.py)  *)
(* The K2 API is a set of URLs, each answering with a page that may name   *)
(* the URL of the next page; URL 1 is requests_url.                        *)
(***************************************************************************)
MaxChain == 3       \* the URLs the K2 API serves pages under

\* a NextPageURL that names URL j
PageUrl(j) == [py |-> "str", s |-> "NextPageURL", n |-> j]

\* what URL i may answer: a page naming no next page, an empty one, or a later URL; or
\* an error
ServerResponses(i) ==
    {OkResponse(<<i>>, next) :
        next \in {PyNone, PyStr("")} \cup {PageUrl(j) : j \in (i + 1)..MaxChain}}
    \cup {HttpErrorResponse(401, TRUE)}

Servers ==
    {server \in [1..MaxChain -> UNION {ServerResponses(i) : i \in 1..MaxChain}] :
        \A i \in 1..MaxChain : server[i] \in ServerResponses(i)}

\* the loop that asks for requests_url every time
request_url_first(next_page_url) == 1

\* lines 86-90: the URL the next request goes to
request_url(next_page_url) == IF Truthy(next_page_url) THEN next_page_url.n ELSE 1

ClientOff ==
    /\ g_server = <<>> /\ g_next_page_url = PyNone /\ g_last_page = FALSE
    /\ g_requested = <<>> /\ g_yielded = <<>> /\ g_pc = "off"

\* lines 79-84
ClientStart ==
    /\ g_server \in Servers
    /\ g_next_page_url = PyStr("")
    /\ g_last_page = FALSE
    /\ g_requested = <<>>
    /\ g_yielded = <<>>
    /\ g_pc = "loop"

\* lines 85-96: one pass of the loop, up to the yield
ClientRequest ==
    /\ g_pc = "loop"
    /\ ~g_last_page
    /\ LET url == request_url(g_next_page_url)
           response == g_server[url]
       IN /\ g_requested' = Append(g_requested, url)
          /\ IF _handle_http_error(response) # ""
             THEN /\ g_pc' = "raised"
                  /\ UNCHANGED <<g_next_page_url, g_last_page, g_yielded>>
             ELSE /\ g_next_page_url' = response.NextPageURL
                  /\ g_last_page' = ~Truthy(response.NextPageURL)
                  /\ g_yielded' = Append(g_yielded, response.Items)
                  /\ g_pc' = "yield"
    /\ UNCHANGED g_server
    /\ UNCHANGED NotClient

\* the consumer asks for the next page: the generator goes on after the yield
ClientResume ==
    /\ g_pc = "yield"
    /\ g_pc' = "loop"
    /\ UNCHANGED <<g_server, g_next_page_url, g_last_page, g_requested, g_yielded>>
    /\ UNCHANGED NotClient

\* line 85 with last_page set: the generator is exhausted
ClientReturn ==
    /\ g_pc = "loop"
    /\ g_last_page
    /\ g_pc' = "done"
    /\ UNCHANGED <<g_server, g_next_page_url, g_last_page, g_requested, g_yielded>>
    /\ UNCHANGED NotClient

(***************************************************************************)
(* Specifications                                                          *)
(***************************************************************************)
ParserInit == ParserStart /\ ResolverOff /\ CondOff /\ RunOff /\ ClientOff
ParserNext == ParseRow \/ ParseReturn
SpecParser == ParserInit /\ [][ParserNext]_vars

ResolverInit == ResolverStart /\ ParserOff /\ CondOff /\ RunOff /\ ClientOff
ResolverNext == ResolveMetadata \/ ResolveField \/ ResolveReturn
SpecResolver == ResolverInit /\ [][ResolverNext]_vars

CondInit == CondStart /\ ParserOff /\ ResolverOff /\ RunOff /\ ClientOff
CondNext == UpdateConditions
SpecConditions == CondInit /\ [][CondNext]_vars

\* Component.run. Its last two steps, RunCloseTableHandlers and RunWriteState, need
\* run_pc = "close", which RunProcessPage never sets while _parse_object_data raises.
Init == RunStart /\ ParserOff /\ ResolverOff /\ CondOff /\ ClientOff
Next ==
    \/ RunValidate
    \/ RunGetMetadata
    \/ RunInitTableHandlers
    \/ RunPrepareFetch
    \/ RunFetchPage
    \/ RunProcessPage
Spec == Init /\ [][Next]_vars

\* run() is one thread that goes on to its next statement until it returns or raises:
\* every step is weakly fair. For the two steps that walk the metadata the condition
\* WF_vars(A) is written out, <>[](ENABLED <<A>>_vars) => []<><<A>>_vars, with
\* ENABLED <<A>>_vars replaced by the guard of A (A always changes run_pc)
SpecLive ==
    /\ Init /\ [][Next]_vars
    /\ WF_vars(RunValidate)
    /\ WF_vars(RunGetMetadata)
    /\ ([]<>(run_pc # "init_handlers") \/ []<><<RunInitTableHandlers>>_vars)
    /\ ([]<>(run_pc # "prepare") \/ []<><<RunPrepareFetch>>_vars)
    /\ WF_vars(RunFetchPage)
    /\ WF_vars(RunProcessPage)

HandlersInit == HandlersStart /\ ParserOff /\ ResolverOff /\ CondOff /\ ClientOff
HandlersNext ==
    \/ RunInitTableHandlers
    \/ HandlersRoute
    \/ RunCloseTableHandlers
    \/ RunWriteState
    \/ HandlersNextRun
SpecHandlers == HandlersInit /\ [][HandlersNext]_vars

ClientInit == ClientStart /\ ParserOff /\ ResolverOff /\ CondOff /\ RunOff
ClientNext == ClientRequest \/ ClientResume \/ ClientReturn
SpecClient == ClientInit /\ [][ClientNext]_vars

(***************************************************************************)
(* C6: the resolver's output is deduplicated by (parent_class_name,        *)
(* field_name): requesting the same child path any number of times yields  *)
(* one relation.                                                           *)
(***************************************************************************)
C6_Deduplicated ==
    r_pc = "returned" =>
        \A i, j \in 1..Len(r_all) :
            i # j => <<r_all[i].ParentClassName, r_all[i].FieldName>>
                     # <<r_all[j].ParentClassName, r_all[j].FieldName>>

(***************************************************************************)
(* C7: a dotted path s1.s2...sn is walked segment by segment from the root *)
(* class: each leading segment that is a declared child of the class       *)
(* reached so far yields exactly one relation, whose parent class and      *)
(* parent primary keys are those of that class, and the walk goes on in    *)
(* the child class; at the first segment that is no declared child the     *)
(* walk stops with nothing more emitted and no error. The only error is    *)
(* the API having no metadata for a declared child class that the walk     *)
(* has to enter.                                                           *)
(***************************************************************************)
PathOf(field) == CHOOSE path \in FieldPaths : join_dot(path) = field

DeclaredChildren(cls, name) ==
    IF cls \in DOMAIN r_store
    THEN {d \in SeqRange(r_store[cls].ChildList) : d.FieldName = name /\ d.ChildClassName # ""}
    ELSE {}

\* the class reached after the first k segments of the path, "" once the walk has stopped
RECURSIVE ClassReached(_, _)
ClassReached(path, k) ==
    IF k = 0 THEN r_class
    ELSE LET ds == DeclaredChildren(ClassReached(path, k - 1), StrOf(path[k]))
         IN IF ds = {} THEN "" ELSE (CHOOSE d \in ds : TRUE).ChildClassName

\* how many leading segments are declared children
Walked(path) ==
    CHOOSE k \in 0..Len(path) :
        /\ \A j \in 1..k : ClassReached(path, j) # ""
        /\ k < Len(path) => ClassReached(path, k + 1) = ""

\* the walk has to enter a declared child class the API has no metadata for
Blocked(path) ==
    \E j \in 1..(Len(path) - 1) :
        /\ ClassReached(path, j) # ""
        /\ ClassReached(path, j) \notin DOMAIN r_store

ExpectedRelations(path) ==
    [j \in 1..Walked(path) |->
        LET parent == r_store[ClassReached(path, j - 1)]
        IN [ClassName |-> ClassReached(path, j),
            FieldName |-> StrOf(path[j]),
            ParentClassName |-> parent.ClassName,
            ParentPrimaryKeys |->
                [n \in 1..Len(parent.PrimaryKeyFieldList) |-> parent.PrimaryKeyFieldList[n].FieldName]]]

IsSet(x) == x.py = "str" /\ x.s # ""

C10_IncrementalCondition ==
    c_pc = "done" =>
        /\ (IsSet(c_field) /\ IsSet(c_date_from) /\ IsSet(c_date_to)) =>
               /\ c_result.py = "str"
               /\ c_result.s =
                    (IF IsSet(c_conditions) THEN c_conditions.s \o "," ELSE "")
                    \o c_field.s \o ";GE;" \o c_date_from.s
                    \o "," \o c_field.s \o ";LE;" \o c_date_to.s
        /\ ~(IsSet(c_field) /\ IsSet(c_date_from) /\ IsSet(c_date_to)) =>
               c_result = c_conditions
        /\ (c_conditions = PyStr("condition") /\ c_field = PyStr("incremental")
            /\ c_date_from = PyStr("from") /\ c_date_to = PyStr("to")) =>
               c_result = PyStr("condition,incremental;GE;from,incremental;LE;to")

\* the call of the unit test has returned
C10_Witness ==
    /\ c_pc = "done"
    /\ c_conditions = PyStr("condition")
    /\ c_field = PyStr("incremental")
    /\ c_date_from = PyStr("from")
    /\ c_date_to = PyStr("to")
    /\ c_result = PyStr("condition,incremental;GE;from,incremental;LE;to")

(***************************************************************************)
(* Reading the run, for the statements about it                            *)
(***************************************************************************)
\* the field names the configuration requests
RequestedFields ==
    LET parsed_fields == comma_separated_values_to_list(_get_fields_to_fetch(config))
    IN {StrOf(parsed_fields[j]) : j \in 1..Len(parsed_fields)}

\* the rows the writer of table name has received, none when there is no such handler
RowsReceived(name) ==
    IF KeyIndex(self_table_handlers, name) = 0 THEN <<>>
    ELSE self_table_handlers[KeyIndex(self_table_handlers, name)].writer.rows

\* the first data request was answered with a page, and lines 180-185 have run for it
FirstPageProcessed ==
    /\ requests = 1
    /\ k2_pages[1].status = "ok"
    /\ run_pc \in {"fetch", "close", "failed"}

IsPrefix(s, t) == Len(s) <= Len(t) /\ SubSeq(t, 1, Len(s)) = s

(***************************************************************************)
(* C1: end to end, for a page holding one root record of class P (primary  *)
(* key Id) whose requested child field F is a declared child relation and  *)
(* holds n elements, the handler of table P receives exactly one row and   *)
(* the handler of table P_F receives exactly n rows, each carrying column  *)
(* P_Id equal to the parent record's Id value.                             *)
(***************************************************************************)
C1_EndToEnd ==
    (FirstPageProcessed /\ Len(k2_pages[1].Items) = 1) =>
        LET record == k2_pages[1].Items[1]
            P == config.data_object
            id == get_primary_key(record.FieldValues, <<"Id">>)
        IN \A j \in 1..Len(record.FieldValues) :
              LET F == record.FieldValues[j]
              IN ( /\ record.DOClassName = P
                   /\ id.name = PyStr("Id")
                   /\ IsChildNode(F)
                   /\ F.Name \in RequestedFields
                   /\ Truthy(get_child_class_name_from_field_name(run_object_metadata,
                                                                 F.Name)) )
                 => /\ Len(RowsReceived(P)) = 1
                    /\ Len(RowsReceived(P \o "_" \o F.Name)) = Len(F.Value.Items)
                    /\ \A k \in 1..Len(RowsReceived(P \o "_" \o F.Name)) :
                          LET row == RowsReceived(P \o "_" \o F.Name)[k]
                          IN (P \o "_Id") \in DOMAIN row /\ row[P \o "_Id"] = id.value

LogOf(kinds) == SelectSeq(run_log, LAMBDA e : e.ev \in kinds)

\* the data request issued last was not answered with a page
FetchFailed == requests >= 1 /\ k2_pages[requests].status # "ok"

(***************************************************************************)
(* C11: if fetching any page fails (authorization failure, malformed       *)
(* query, connection failure or any other server error), the run aborts as *)
(* a user-facing fatal error at that page: no later page is requested, no  *)
(* table handler is closed, no manifest is written and the run state is    *)
(* not written.                                                            *)
(***************************************************************************)
C11_FetchFailureAborts ==
    \A i \in 1..requests :
        k2_pages[i].status # "ok" =>
            /\ i = requests
            /\ Len(LogOf({"get_raw"})) = i
            /\ run_pc = "failed"
            /\ run_error = "UserException"
            /\ LogOf({"writer.close", "write_manifest", "write_state_file"}) = <<>>
            /\ manifests = EmptyDict
            /\ \A j \in 1..Len(self_table_handlers) : ~self_table_handlers[j].writer.closed

C13_SequentialPaging ==
    LET n == Len(g_requested)
    IN /\ n >= 1 => g_requested[1] = 1
       /\ \A k \in 2..n :
             /\ g_server[g_requested[k - 1]].status = "ok"
             /\ g_server[g_requested[k - 1]].NextPageURL = PageUrl(g_requested[k])
       /\ \A k \in 1..n : \A k2 \in 1..n : k # k2 => g_requested[k] # g_requested[k2]
       /\ Len(g_yielded) <= n
       /\ \A k \in 1..Len(g_yielded) : g_yielded[k] = g_server[g_requested[k]].Items
       /\ g_pc \in {"yield", "done"} => Len(g_yielded) = n
       /\ g_pc = "done" => ~Truthy(g_server[g_requested[n]].NextPageURL)
       /\ (g_pc = "yield" /\ ~Truthy(g_server[g_requested[n]].NextPageURL)) => g_last_page

\* a chain of MaxChain pages has been walked to its end
C13_Witness ==
    /\ g_pc = "done"
    /\ Len(g_requested) = MaxChain
    /\ Len(g_yielded) = MaxChain

\* incremental load with the incremental field, the from-date or the to-date missing
IncrementalIncomplete ==
    /\ config.load_type = "Incremental load"
    /\ \/ ~Truthy(config.incremental_field)
       \/ ~Truthy(config.date_from)
       \/ ~Truthy(config.date_to)

(***************************************************************************)
(* C14: configuration errors are rejected before any provider call. When   *)
(* the load type is incremental and the incremental field, the from-date   *)
(* or the to-date is missing, run() fails with a user-facing error before  *)
(* any metadata request or data request is issued, with no table handler   *)
(* created and no state written.                                           *)
(***************************************************************************)
C14_ConfigRejectedFirst ==
    IncrementalIncomplete =>
        /\ run_pc \in {"validate", "failed"}
        /\ run_pc = "failed" => run_error = "UserException"
        /\ LogOf({"get_object_meta", "get_raw"}) = <<>>
        /\ requests = 0
        /\ LogOf({"TableHandler"}) = <<>>
        /\ self_table_handlers = <<>>
        /\ LogOf({"write_state_file"}) = <<>>

\* a configuration that lacks only the to-date has been rejected
C14_Witness ==
    /\ IncrementalIncomplete
    /\ config.required
    /\ Truthy(config.incremental_field)
    /\ Truthy(config.date_from)
    /\ run_pc = "failed"
    /\ run_error = "UserException"

\* the positions of the run's log that hold an event of one of the given kinds
LogPositions(kinds) == {k \in 1..Len(run_log) : run_log[k].ev \in kinds}

\* how often the log holds the event
LogCount(ev, name) == Cardinality({k \in 1..Len(run_log) : run_log[k] = Event(ev, name)})

RECURSIVE ElementsIn(_, _)
RECURSIVE ElementsInItems(_, _)
ElementsIn(fs, t) ==
    IF fs = <<>> THEN 0
    ELSE LET f == Head(fs)
         IN (IF IsChildNode(f)
             THEN (IF f.Name = t THEN Len(f.Value.Items) ELSE 0)
                  + ElementsInItems(f.Value.Items, t)
             ELSE IF IsNestedNode(f) THEN ElementsIn(f.Value.FieldValues, t)
             ELSE 0)
            + ElementsIn(Tail(fs), t)

ElementsInItems(items, t) ==
    IF items = <<>> THEN 0
    ELSE ElementsIn(Head(items).FieldValues, t) + ElementsInItems(Tail(items), t)

\* the same number over the records parse_data has gone through
RECURSIVE ElementsParsed(_, _)
ElementsParsed(n, t) ==
    IF n = 0 THEN 0
    ELSE ElementsParsed(n - 1, t) + ElementsIn(json_data[n].FieldValues, t)

RowCount(t) == IF t \in DOMAIN final_data THEN Len(final_data[t]) ELSE 0

(***************************************************************************)
(* C16: every element of every child collection yields its own row: the    *)
(* number of rows of a child table equals the number of elements of all    *)
(* the collections routed to it, those of the same field under different   *)
(* parent elements included, and the columns of a row are those of one     *)
(* element (and its foreign key), never those of two.                      *)
(***************************************************************************)
C16_OneRowPerElement ==
    (p_pc \in {"loop", "returned"}) =>
        \A t \in {c.node.Name : c \in PageCollections} :
            /\ RowCount(t) = ElementsParsed(row_i - 1, t)
            /\ \A row \in SeqRange(IF t \in DOMAIN final_data THEN final_data[t] ELSE <<>>) :
                  \E c \in CollectionsNamed(t) :
                      \E it \in SeqRange(c.node.Value.Items) :
                          DOMAIN row \ ForeignKeyNames(t) = QualifiedNames(it)

\* every record of the page has a scalar of its own or of a nested object
RecordsHaveScalars ==
    \A i \in 1..Len(json_data) : ScalarsOf(json_data[i], <<>>) # {}

(***************************************************************************)
(* C17: for a page of n records, each with at least one scalar field, the  *)
(* main table returned by parse_data has exactly n rows in record order,   *)
(* and row i holds exactly the scalar and nested-object fields of record   *)
(* i, each with its value.                                                 *)
(***************************************************************************)
C17_MainRowPerRecord ==
    (p_pc = "returned" /\ RecordsHaveScalars) =>
        /\ main_table_name \in DOMAIN final_data
        /\ Len(final_data[main_table_name]) = Len(json_data)
        /\ \A i \in 1..Len(json_data) :
              LET row == final_data[main_table_name][i]
              IN /\ DOMAIN row = QualifiedNames(json_data[i])
                 /\ \A s \in ScalarsOf(json_data[i], <<>>) :
                       row[JoinUnderscore(s.path, s.name)] = s.value

\* a returned page of two different records, the first with a nested object
C17_Witness ==
    /\ p_pc = "returned"
    /\ RecordsHaveScalars
    /\ Len(json_data) = 2
    /\ main_table_name \in DOMAIN final_data
    /\ Len(final_data[main_table_name]) = 2
    /\ final_data[main_table_name][1] # final_data[main_table_name][2]
    /\ \E s \in ScalarsOf(json_data[1], <<>>) : s.path # <<>>

(***************************************************************************)
(* C18: the flattening engine never throws on a well-typed record tree: a  *)
(* child element without scalar fields, an empty child collection and a    *)
(* top-level record without scalar fields are flattened without raising,   *)
(* and every child row of the output carries its foreign key.              *)
(***************************************************************************)
C18_NeverThrows ==
    /\ p_pc # "raised"
    /\ p_pc = "returned" =>
          \A t \in ChildTables :
              \A row \in SeqRange(final_data[t]) : DOMAIN row \cap ForeignKeyNames(t) # {}

\* the configuration passes the checks of run() (lines 75-82)
ValidConfiguration ==
    /\ config.required
    /\ _get_date_from(config, state_file).err = ""
    /\ _get_date_to(config).err = ""
    /\ ~_validate_fetching_mode(config, _get_date_from(config, state_file).date,
                                _get_date_to(config).date)

\* the source has the metadata of the data object and of every requested child
MetadataAvailable ==
    LET found == _get_object_metadata(k2_meta, config.data_object)
    IN /\ found.err = ""
       /\ _init_table_handlers(k2_meta, config, state_file, <<>>, found.metadata,
                               _get_fields_to_fetch(config)).err = ""
       /\ _get_child_foreign_keys(k2_meta, found.metadata,
                                  _get_fields_to_fetch(config)).err = ""

\* the source answers with a finite chain of at least one page and no failure
PagesWithoutFailure ==
    /\ Len(k2_pages) >= 1
    /\ \A j \in 1..Len(k2_pages) :
          /\ k2_pages[j].status = "ok"
          /\ Truthy(k2_pages[j].NextPageURL) <=> j < Len(k2_pages)

ValidRun == ValidConfiguration /\ MetadataAvailable /\ PagesWithoutFailure

(***************************************************************************)
(* C19: if the configuration is valid, the metadata is available and the   *)
(* source yields a finite chain of at least one page without a transport   *)
(* failure, then run() eventually has processed every page, closed every   *)
(* table handler and written the run state.                                *)
(***************************************************************************)
C19_ValidRunCompletes ==
    (ValidRun /\ run_pc = "validate")
        ~> /\ run_pc = "done"
           /\ requests = Len(k2_pages)
           /\ \A j \in 1..Len(self_table_handlers) : self_table_handlers[j].writer.closed
           /\ LogOf({"write_state_file"}) # <<>>

\* the primary keys the routing table of the run carries for a child field of a class
RoutingEntries(cls, field) ==
    {m \in 1..Len(child_object_foreign_keys) :
        child_object_foreign_keys[m].key = cls \o "_" \o field}

(***************************************************************************)
(* C20: for a requested child field whose parent metadata declares the     *)
(* primary keys P, the flattening engine looks up and stamps the foreign   *)
(* key with the names P carried by the routing table of                    *)
(* _get_child_foreign_keys: once a page is processed, every row of a       *)
(* collection with an entry in the routing table has the column            *)
(* {parent class}_{k} for a key k of that entry.                           *)
(***************************************************************************)
C20_RoutingKeysUsed ==
    (run_log # <<>> /\ run_log[Len(run_log)].ev = "parse") =>
        \A j \in 1..Len(page_data) :
            \A c \in CollectionsIn(page_data[j]) :
                \A m \in RoutingEntries(c.parent.DOClassName, c.node.Name) :
                    c.node.Value.Items # <<>> =>
                        /\ c.node.Name \in DOMAIN run_parsed_data
                        /\ run_parsed_data[c.node.Name] # <<>>
                        /\ \A row \in SeqRange(run_parsed_data[c.node.Name]) :
                              \E k \in SeqRange(child_object_foreign_keys[m].value) :
                                  (c.parent.DOClassName \o "_" \o k) \in DOMAIN row

\* the key of the run state under which a handler's columns are read and written
StateKey(handler) == class_name(handler.object_metadata)

(***************************************************************************)
(* C21: persisted column lists are per table. No two table handlers of a   *)
(* run read or write the same entry of the run state; once the handlers    *)
(* are closed the new state holds, for every handler, an entry equal to    *)
(* that handler's final column list; and on the next run the handler of a  *)
(* table is seeded with the list that table ended the previous run with.   *)
(***************************************************************************)
C21_StatePerTable ==
    \A j \in 1..Len(self_table_handlers) :
        LET handler == self_table_handlers[j]
        IN /\ \A k \in 1..Len(self_table_handlers) :
                 k # j => StateKey(self_table_handlers[k]) # StateKey(handler)
           /\ run_pc \in {"write_state", "done"} =>
                 /\ StateKey(handler) \in DOMAIN self_new_state.previous_columns
                 /\ self_new_state.previous_columns[StateKey(handler)]
                       = handler.writer.fieldnames
           /\ (run_no > 1 /\ handler.name \in DOMAIN prev_manifests) =>
                 handler.writer.seeded = prev_manifests[handler.name]

\* the tables the current run handles
HandledTables == {self_table_handlers[j].name : j \in 1..Len(self_table_handlers)}

\* the key of the run state that holds the columns of a table of the data object: the
\* class of the object for its own table, the child class for the table of a child field
TableStateKey(table) ==
    IF table = class_name(run_object_metadata) THEN table
    ELSE LET children == run_object_metadata.ChildList
             j == CHOOSE m \in 1..Len(children) :
                     class_name(run_object_metadata) \o "_" \o children[m].FieldName = table
         IN children[j].ChildClassName

\* the previous-columns entries the run started with
StartColumns == DictGet(self_state, "previous_columns", EmptyDict)

====
